---- MODULE Spec2Model ----
(***************************************************************************)
(* Double pendulum simulator (src/script.js): interaction controller,      *)
(* external force collection, per-frame integrator and trail recorder.     *)
(*                                                                         *)
(* Fixed-point units (the source computes in IEEE doubles):                *)
(*   positions        1/100 px            velocities   1/100 px per s      *)
(*   mouseX, mouseY   px                  forces       1/10 px kg / s^2    *)
(*   g                1/100 m/s^2         air          1/100 kg/s          *)
(*   L1_m, L2_m       1/100 m             masses       1/10 kg             *)
(*   radius_m         1/10 m              dt           ms                  *)
(*   force x,y edits  1/100 m             sub-step h   1/100 ms            *)
(*   unit vectors     1/1000                                               *)
(***************************************************************************)
EXTENDS Integers, Sequences, FiniteSets, TLC

\* ---------------------------------------------------------------------
\* Bounds of the model
\* ---------------------------------------------------------------------
MaxForceId == 2
MaxEvents == 5
MaxTrailFrames == 901
MaxPanelEvents == 3
MaxForceEvents == 2
MaxCollideEvents == 5
MaxStepEvents == 3
MaxDragEvents == 7

\* ---------------------------------------------------------------------
\* Program constants
\* ---------------------------------------------------------------------
simW == 800
simH == 600
MAX_TRAIL_POINTS == 800

\* ---------------------------------------------------------------------
\* Fixed-point arithmetic
\* ---------------------------------------------------------------------
Abs(a) == IF a < 0 THEN -a ELSE a
Sgn(a) == IF a < 0 THEN -1 ELSE IF a > 0 THEN 1 ELSE 0
Max(a, b) == IF a >= b THEN a ELSE b
Min(a, b) == IF a <= b THEN a ELSE b

\* a / c rounded to the nearest integer, for a >= 0 and c > 0
RndDiv(a, c) == (2 * a + c) \div (2 * c)

\* a * b / c rounded to the nearest integer, symmetric about zero; a is
\* split by c so that no intermediate product leaves 32 bits
MulDiv(a, b, c) ==
    LET aa == Abs(a)
        bb == Abs(b)
        q == aa \div c
        r == aa % c
    IN Sgn(a) * Sgn(b) * (q * bb + RndDiv(r * bb, c))

\* Newton's iteration from x >= sqrt(n) down to the integer square root
RECURSIVE SqrtIter(_, _)
SqrtIter(n, x) ==
    LET y == (x + n \div x) \div 2
    IN IF y >= x THEN x ELSE SqrtIter(n, y)

\* Math.sqrt, rounded to the nearest integer
Sqrt(n) ==
    IF n <= 0 THEN 0
    ELSE LET s == SqrtIter(n, (2048 + n \div 2048) \div 2 + 1)
         IN IF n - s * s > s THEN s + 1 ELSE s

\* p5.Vector
vec(x, y) == [x |-> x, y |-> y]
VAdd(a, b) == vec(a.x + b.x, a.y + b.y)
VSub(a, b) == vec(a.x - b.x, a.y - b.y)
VNeg(a) == vec(-a.x, -a.y)
ZeroVec == vec(0, 0)
\* mag(): exact to the unit while the squares fit 32 bits, and to one part
\* in 10^4 beyond, as a * sqrt(1 + (b / a)^2) with a the larger component
Mag(d) ==
    LET a == Max(Abs(d.x), Abs(d.y))
        b == Min(Abs(d.x), Abs(d.y))
        k == a \div 32768 + 1
        r == MulDiv(b \div k, 10000, a \div k)
    IN IF a < 32768 THEN Sqrt(d.x * d.x + d.y * d.y)
       ELSE MulDiv(a, Sqrt(100000000 + r * r), 10000)
\* unit-vector (1/1000) times a scalar
Scale(dir, s) == vec(MulDiv(s, dir.x, 1000), MulDiv(s, dir.y, 1000))
\* dot product of a vector with a unit vector (1/1000)
Dot(v, dir) == MulDiv(v.x, dir.x, 1000) + MulDiv(v.y, dir.y, 1000)
\* d / len, as a unit vector in 1/1000; the zero vector when len is the
\* 1e-6 floor, as d is then the zero vector itself
Unit(d, len) ==
    IF len = 0 THEN ZeroVec
    ELSE vec(MulDiv(d.x, 1000, len), MulDiv(d.y, 1000, len))

\* dist(x1, y1, x2, y2) <= r, all in 1/100 px
WithinDist(x1, y1, x2, y2, r) ==
    /\ Abs(x1 - x2) <= r
    /\ Abs(y1 - y2) <= r
    /\ (x1 - x2) * (x1 - x2) + (y1 - y2) * (y1 - y2) <= r * r

\* cos and sin of an angle in degrees (multiples of 30), in 1/1000
CosTable == <<1000, 866, 500, 0, -500, -866, -1000, -866, -500, 0, 500, 866>>
Cos1000(deg) == CosTable[((deg % 360) \div 30) + 1]
Sin1000(deg) == Cos1000(deg - 90)
\* p5.Vector.fromAngle of an angle given in degrees
fromAngleDeg(a) == vec(Cos1000(a), Sin1000(a))

\* ---------------------------------------------------------------------
\* Helpers of the source
\* ---------------------------------------------------------------------
\* Map 0..100% to the stiffness range [50 .. 20000], rounded
pctToStiffness(pct) == 50 + RndDiv(19950 * pct * pct, 10000)

\* 8 + sqrt(max(0.1, m)) * 4 px, for m in 1/10 kg
bobRadius(m) == 800 + Sqrt(16000 * Max(1, m))

\* ---------------------------------------------------------------------
\* State
\* ---------------------------------------------------------------------
VARIABLES
    state,      \* the `state` object: parameters, pivot, forces, flags
    p1, p2,     \* bob positions
    v1, v2,     \* bob velocities
    trail1, trail2,
    dragging,   \* { type, idx }
    mouseX, mouseY,
    nEvents,    \* number of frames, pointer events and UI events so far
    ev,         \* the handler that ran last and the branch it took
    issued,     \* the force ids assigned so far, in order of assignment
    samples1, samples2, \* bob positions at the end of every sampled frame
                        \* since the last reset
    subStep,    \* the loop variable i of draw(): the sub-steps of the
                \* running frame already done, 0 between frames
    grabbed     \* which force the press that began the force drag in
                \* progress found under the pointer, as its place in
                \* `issued`; 0 when no force drag is in progress

vars == <<state, p1, p2, v1, v2, trail1, trail2, dragging, mouseX, mouseY,
          nEvents, ev, issued, samples1, samples2,
          subStep, grabbed>>

NoDrag == [type |-> "null", idx |-> -1]

\* isMouseInCanvas with the right and bottom edges counted as inside
isMouseInCanvasInclusive(mx, my) ==
    mx >= 0 /\ mx <= simW /\ my >= 0 /\ my <= simH

\* isMouseInCanvas, for a pointer position in px
isMouseInCanvas(mx, my) == mx >= 0 /\ mx < simW /\ my >= 0 /\ my < simH

\* applyAngles: the pose of both bobs hanging from `pivot`
applyAngles(st, theta1Deg, theta2Deg) ==
    LET L1px == st.L1_m * st.pxPerM
        L2px == st.L2_m * st.pxPerM
        q1 == VAdd(st.pivot, Scale(fromAngleDeg(theta1Deg), L1px))
        q2 == VAdd(q1, Scale(fromAngleDeg(theta1Deg + theta2Deg), L2px))
    IN [p1 |-> q1, p2 |-> q2, v1 |-> ZeroVec, v2 |-> ZeroVec]

\* ResetState with the time step left as it was
ResetStateKeepsDt(st) ==
    [st EXCEPT !.pxPerM = 100, !.g = 981, !.air = 0, !.collideBobs = FALSE,
               !.L1_m = 200, !.L2_m = 200,
               !.k1 = pctToStiffness(100), !.k2 = pctToStiffness(100),
               !.m1 = 10, !.m2 = 10, !.ms1 = 0, !.ms2 = 0,
               !.substeps = 8,
               !.forces = <<>>, !.nextForceId = 1, !.placingForce = FALSE,
               !.showTrails = TRUE]

\* the parameter and force assignments of resetSim
ResetState(st) ==
    [st EXCEPT !.pxPerM = 100, !.g = 981, !.air = 0, !.collideBobs = FALSE,
               !.L1_m = 200, !.L2_m = 200,
               !.k1 = pctToStiffness(100), !.k2 = pctToStiffness(100),
               !.m1 = 10, !.m2 = 10, !.ms1 = 0, !.ms2 = 0,
               !.dt = 16, !.substeps = 8,
               !.forces = <<>>, !.nextForceId = 1, !.placingForce = FALSE,
               !.showTrails = TRUE]

\* the `state` literal, with the pivot setup() gives it
InitialState ==
    [g |-> 981, air |-> 0, collideBobs |-> FALSE, pxPerM |-> 100,
     L1_m |-> 200, L2_m |-> 200, k1 |-> 5000, k2 |-> 5000,
     m1 |-> 10, m2 |-> 10, ms1 |-> 0, ms2 |-> 0, dt |-> 16, substeps |-> 5,
     pivot |-> vec((simW * 100) \div 2, (simH * 100) \div 5),
     forces |-> <<>>, nextForceId |-> 1, placingForce |-> FALSE,
     paused |-> FALSE, showTrails |-> TRUE]

\* the record of a handler run: the path it took and whether a bob was
\* moving when it was called
Event(op) == [op |-> op, moving |-> (v1 # ZeroVec \/ v2 # ZeroVec)]

\* setup(): the state literal, then resetSim()
Init ==
    /\ state = ResetState(InitialState)
    /\ LET pose == applyAngles(ResetState(InitialState), -30, -30)
       IN /\ p1 = pose.p1
          /\ p2 = pose.p2
          /\ v1 = pose.v1
          /\ v2 = pose.v2
    /\ trail1 = <<>>
    /\ trail2 = <<>>
    /\ dragging = NoDrag
    /\ mouseX = 0
    /\ mouseY = 0
    /\ nEvents = 0
    /\ ev = [op |-> "setup", moving |-> FALSE]
    /\ issued = <<>>
    /\ samples1 = <<>>
    /\ samples2 = <<>>
    /\ subStep = 0
    /\ grabbed = 0

\* ---------------------------------------------------------------------
\* Physics
\* ---------------------------------------------------------------------
\* SumForces with the boundary of the disc excluded: d < rpx
RECURSIVE SumForcesStrict(_, _, _, _)
SumForcesStrict(pos, fs, pxPerM, i) ==
    IF i > Len(fs) THEN ZeroVec
    ELSE LET f == fs[i]
             rpx == f.radius_m * pxPerM * 10
             rest == SumForcesStrict(pos, fs, pxPerM, i + 1)
         IN IF /\ WithinDist(pos.x, pos.y, f.x, f.y, rpx)
               /\ (pos.x - f.x) * (pos.x - f.x) + (pos.y - f.y) * (pos.y - f.y)
                      # rpx * rpx
            THEN VAdd(Scale(fromAngleDeg(f.angleDeg),
                            f.magnitude * pxPerM * 10), rest)
            ELSE rest

RECURSIVE SumForces(_, _, _, _)
SumForces(pos, fs, pxPerM, i) ==
    IF i > Len(fs) THEN ZeroVec
    ELSE LET f == fs[i]
             rpx == f.radius_m * pxPerM * 10
             rest == SumForces(pos, fs, pxPerM, i + 1)
         IN IF WithinDist(pos.x, pos.y, f.x, f.y, rpx)
            THEN VAdd(Scale(fromAngleDeg(f.angleDeg),
                            f.magnitude * pxPerM * 10), rest)
            ELSE rest

\* the sum of the external forces whose disc holds `pos`
addExternalForces(st, pos) == SumForces(pos, st.forces, st.pxPerM, 1)

\* CouplingForce of a spring whose natural length is zero
CouplingForceFromZeroLength(st, s) ==
    LET m1eff == st.m1 + st.ms1
        m2eff == st.m2 + st.ms2
        d12 == VSub(s.p2, s.p1)
        len2 == Mag(d12)
        dir12 == Unit(d12, len2)
        c2 == Sqrt(10 * st.k2 * Min(m1eff, m2eff))
        vrel12n == Dot(VSub(s.v2, s.v1), dir12)
    IN Scale(dir12, MulDiv(len2, st.k2, 10) + MulDiv(vrel12n, c2, 1000))

\* the coupling-spring force F12 on bob1
CouplingForce(st, s) ==
    LET m1eff == st.m1 + st.ms1
        m2eff == st.m2 + st.ms2
        d12 == VSub(s.p2, s.p1)
        len2 == Mag(d12)
        dir12 == Unit(d12, len2)
        ext2 == len2 - st.L2_m * st.pxPerM
        c2 == Sqrt(10 * st.k2 * Min(m1eff, m2eff))
        vrel12n == Dot(VSub(s.v2, s.v1), dir12)
    IN Scale(dir12, MulDiv(ext2, st.k2, 10) + MulDiv(vrel12n, c2, 1000))

\* net force on bob1, F12 being the coupling-spring force
Force1(st, s, F12) ==
    LET m1eff == st.m1 + st.ms1
        gravity == vec(0, MulDiv(st.g * st.pxPerM, m1eff, 100))
        drag == vec(-MulDiv(s.v1.x, st.air, 1000), -MulDiv(s.v1.y, st.air, 1000))
        d1 == VSub(s.p1, st.pivot)
        len1 == Mag(d1)
        dir1 == Unit(d1, len1)
        ext1 == len1 - st.L1_m * st.pxPerM
        c1 == Sqrt(10 * st.k1 * m1eff)
        v1n == Dot(s.v1, dir1)
        spring == Scale(dir1, -(MulDiv(ext1, st.k1, 10) + MulDiv(v1n, c1, 1000)))
    IN VAdd(VAdd(VAdd(VAdd(gravity, drag), spring), F12),
            addExternalForces(st, s.p1))

\* Force2 with the coupling-spring force added with the sign it has on bob1
Force2SameSign(st, s, F12) ==
    LET m2eff == st.m2 + st.ms2
        gravity == vec(0, MulDiv(st.g * st.pxPerM, m2eff, 100))
        drag == vec(-MulDiv(s.v2.x, st.air, 1000), -MulDiv(s.v2.y, st.air, 1000))
    IN VAdd(VAdd(VAdd(gravity, drag), F12),
            addExternalForces(st, s.p2))

\* net force on bob2, F12 being the coupling-spring force
Force2(st, s, F12) ==
    LET m2eff == st.m2 + st.ms2
        gravity == vec(0, MulDiv(st.g * st.pxPerM, m2eff, 100))
        drag == vec(-MulDiv(s.v2.x, st.air, 1000), -MulDiv(s.v2.y, st.air, 1000))
    IN VAdd(VAdd(VAdd(gravity, drag), VNeg(F12)),
            addExternalForces(st, s.p2))

\* elastic collision of the two bob circles
handleBobCollision(st, s) ==
    LET m1eff == st.m1 + st.ms1
        m2eff == st.m2 + st.ms2
        delta == VSub(s.p2, s.p1)
        dist12 == Mag(delta)
        minDist == bobRadius(st.m1) + bobRadius(st.m2)
        n == Unit(delta, dist12)
        overlap == minDist - dist12
        vn == Dot(VSub(s.v2, s.v1), n)
    IN IF dist12 < minDist
       THEN [p1 |-> VSub(s.p1, vec(MulDiv(overlap, n.x, 2000),
                                   MulDiv(overlap, n.y, 2000))),
             p2 |-> VAdd(s.p2, vec(MulDiv(overlap, n.x, 2000),
                                   MulDiv(overlap, n.y, 2000))),
             v1 |-> VAdd(s.v1, Scale(n, MulDiv(2 * vn, m2eff, m1eff + m2eff))),
             v2 |-> VSub(s.v2, Scale(n, MulDiv(2 * vn, m1eff, m1eff + m2eff)))]
       ELSE s

\* semi-implicit Euler: velocity first, then position with the new velocity
\* (F / meff) * h is rounded once, so that a light bob on a stiff string
\* stays within 32 bits
Integrate(p, v, F, meff, h) ==
    LET nv == VAdd(v, vec(MulDiv(F.x, h, meff * 1000),
                          MulDiv(F.y, h, meff * 1000)))
        np == VAdd(p, vec(MulDiv(nv.x, h, 100000), MulDiv(nv.y, h, 100000)))
    IN [p |-> np, v |-> nv]

\* the bobs s = [p1, p2, v1, v2] after the forces and the integration of
\* one sub-step of h (1/100 ms), before the collision test
Integrated(st, s, h) ==
    LET F12 == CouplingForce(st, s)
        b1 == Integrate(s.p1, s.v1, Force1(st, s, F12), st.m1 + st.ms1, h)
        b2 == Integrate(s.p2, s.v2, Force2(st, s, F12), st.m2 + st.ms2, h)
    IN [p1 |-> b1.p, p2 |-> b2.p, v1 |-> b1.v, v2 |-> b2.v]

\* one sub-step of h (1/100 ms)
stepPhysics(st, s, h) ==
    IF st.collideBobs THEN handleBobCollision(st, Integrated(st, s, h))
    ELSE Integrated(st, s, h)

RECURSIVE Steps(_, _, _, _)
\* the loop of draw(): n sub-steps, each on the bobs the one before left
\* (the comparison has each sub-step evaluated before the next begins)
Steps(st, s, h, n) ==
    IF n = 0 THEN s
    ELSE LET t == stepPhysics(st, s, h)
         IN IF t = s THEN Steps(st, s, h, n - 1) ELSE Steps(st, t, h, n - 1)

\* PushTrail that shifts as soon as the bound is reached
PushTrailShiftsEarly(trail, p) ==
    LET t == Append(trail, p)
    IN IF Len(t) >= MAX_TRAIL_POINTS THEN Tail(t) ELSE t

\* push, then shift once the bound is exceeded
PushTrail(trail, p) ==
    LET t == Append(trail, p)
    IN IF Len(t) > MAX_TRAIL_POINTS THEN Tail(t) ELSE t

\* updateTrails that samples whether or not trails are shown
updateTrailsAlways(st, trail, p) == PushTrail(trail, p)

\* updateTrails, for one buffer: nothing when trails are not shown
updateTrails(st, trail, p) ==
    IF st.showTrails THEN PushTrail(trail, p) ELSE trail

\* Frame with the sub-steps run whether or not the simulation is paused
FrameIgnoresPause(st, s) ==
    Steps(st, s, RndDiv(st.dt * 100, Max(1, st.substeps)), Max(1, st.substeps))

\* the bobs after the physics update of draw(): max(1, floor(substeps))
\* sub-steps of dt / steps each, none while paused
Frame(st, s) ==
    IF st.paused THEN s
    ELSE Steps(st, s, RndDiv(st.dt * 100, Max(1, st.substeps)),
               Max(1, st.substeps))

\* draw(): the physics update of one frame and the trail sample
draw ==
    /\ nEvents' = nEvents + 1
    /\ ev' = Event(IF state.paused THEN "drawPaused" ELSE "draw")
    /\ \E s \in {Frame(state, [p1 |-> p1, p2 |-> p2, v1 |-> v1, v2 |-> v2])} :
           /\ p1' = s.p1
           /\ p2' = s.p2
           /\ v1' = s.v1
           /\ v2' = s.v2
           /\ IF state.paused
              THEN UNCHANGED <<trail1, trail2, samples1, samples2>>
              ELSE /\ trail1' = updateTrails(state, trail1, s.p1)
                   /\ trail2' = updateTrails(state, trail2, s.p2)
                   /\ samples1' = IF state.showTrails
                                   THEN Append(samples1, s.p1) ELSE samples1
                   /\ samples2' = IF state.showTrails
                                   THEN Append(samples2, s.p2) ELSE samples2
    /\ UNCHANGED <<subStep, grabbed>>
    /\ UNCHANGED <<state, dragging, mouseX, mouseY, issued>>

\* one iteration of the loop of draw(), `for (i < steps) stepPhysics(h)`,
\* and after the last one updateTrails() and the end of the frame
drawSubStep ==
    /\ ~state.paused
    /\ \E steps \in {Max(1, state.substeps)} :
       \E s \in {stepPhysics(state,
                              [p1 |-> p1, p2 |-> p2, v1 |-> v1, v2 |-> v2],
                              RndDiv(state.dt * 100, steps))} :
           /\ p1' = s.p1
           /\ p2' = s.p2
           /\ v1' = s.v1
           /\ v2' = s.v2
           /\ IF subStep + 1 < steps
              THEN /\ subStep' = subStep + 1
                   /\ UNCHANGED <<nEvents, ev, trail1, trail2,
                                  samples1, samples2>>
              ELSE /\ subStep' = 0
                   /\ nEvents' = nEvents + 1
                   /\ ev' = Event("draw")
                   /\ trail1' = updateTrails(state, trail1, s.p1)
                   /\ trail2' = updateTrails(state, trail2, s.p2)
                   /\ samples1' = IF state.showTrails
                                   THEN Append(samples1, s.p1) ELSE samples1
                   /\ samples2' = IF state.showTrails
                                   THEN Append(samples2, s.p2) ELSE samples2
    /\ UNCHANGED <<state, dragging, mouseX, mouseY, issued, grabbed>>

\* a host that hands events to their handlers inside the loop of draw()
HostAlwaysIdle == TRUE

\* the host calls a handler only when no callback is running: draw() is
\* synchronous from its first line to its last, so no event is handled
\* between two of its sub-steps
HostIdle == subStep = 0

\* ---------------------------------------------------------------------
\* Inputs
\* ---------------------------------------------------------------------
\* pointer positions (px): on the initial pivot, 10 px and 12 px from it,
\* and just past the right edge of the surface
MousePoints ==
    {<<400, 120>>, <<406, 128>>, <<400, 132>>, <<800, 120>>}
ForceIds == 1..MaxForceId
AngleInputs == {90}
MagnitudeInputs == {50}
RadiusInputs == {0, 20}
MeterInputs == {500}
ThetaInputs == {<<0, 0>>, <<-30, 60>>}
\* values typed into the parameter panel, in the units of the header: each
\* clamped field gets a value below its floor
GravityInputs == {0}
AirInputs == {50}
LengthInputs == {0, 150}
PercentInputs == {0, 150}
MassInputs == {0}
StringMassInputs == {-10}
DtInputs == {0, 10}
SubstepInputs == {0}
PxPerMInputs == {0}

\* ---------------------------------------------------------------------
\* Mouse interactions
\* ---------------------------------------------------------------------
\* index of the first force within 12 px of the pointer, 0 when none
RECURSIVE FirstForceAt(_, _, _, _)
FirstForceAt(fs, mx, my, i) ==
    IF i > Len(fs) THEN 0
    ELSE IF WithinDist(mx * 100, my * 100, fs[i].x, fs[i].y, 1200) THEN i
    ELSE FirstForceAt(fs, mx, my, i + 1)

\* PlaceForce with the id counter left as it was
PlaceForceNoIncrement(st, mx, my) ==
    [st EXCEPT !.forces = Append(st.forces,
                   [id |-> st.nextForceId, x |-> mx * 100, y |-> my * 100,
                    angleDeg |-> 0, magnitude |-> 0, radius_m |-> 8]),
               !.placingForce = FALSE]

\* PlaceForce with the placing flag left set
PlaceForceKeepsPlacing(st, mx, my) ==
    [st EXCEPT !.nextForceId = st.nextForceId + 1,
               !.forces = Append(st.forces,
                   [id |-> st.nextForceId, x |-> mx * 100, y |-> my * 100,
                    angleDeg |-> 0, magnitude |-> 0, radius_m |-> 8])]

\* the state after the placing branch of mousePressed
PlaceForce(st, mx, my) ==
    [st EXCEPT !.nextForceId = st.nextForceId + 1,
               !.forces = Append(st.forces,
                   [id |-> st.nextForceId, x |-> mx * 100, y |-> my * 100,
                    angleDeg |-> 0, magnitude |-> 0, radius_m |-> 8]),
               !.placingForce = FALSE]

\* PickDrag with the pivot tested before the forces
PickDragPivotFirst(st, mx, my) ==
    LET i == FirstForceAt(st.forces, mx, my, 1)
    IN IF WithinDist(mx * 100, my * 100, st.pivot.x, st.pivot.y, 1000)
       THEN [type |-> "pivot", idx |-> -1]
       ELSE IF i # 0 THEN [type |-> "force", idx |-> st.forces[i].id]
       ELSE dragging

\* PickDrag with the pivot's pick radius exclusive of its boundary
PickDragStrict(st, mx, my) ==
    LET i == FirstForceAt(st.forces, mx, my, 1)
    IN IF i # 0 THEN [type |-> "force", idx |-> st.forces[i].id]
       ELSE IF WithinDist(mx * 100, my * 100, st.pivot.x, st.pivot.y, 999)
       THEN [type |-> "pivot", idx |-> -1]
       ELSE dragging

\* the drag a press outside placing mode starts: forces first, then the pivot
PickDrag(st, mx, my) ==
    LET i == FirstForceAt(st.forces, mx, my, 1)
    IN IF i # 0 THEN [type |-> "force", idx |-> st.forces[i].id]
       ELSE IF WithinDist(mx * 100, my * 100, st.pivot.x, st.pivot.y, 1000)
       THEN [type |-> "pivot", idx |-> -1]
       ELSE dragging

\* the branch of mousePressed a press at (mx, my) takes
PressPath(st, mx, my) ==
    IF ~isMouseInCanvas(mx, my) THEN "pressOutside"
    ELSE IF st.placingForce THEN "pressPlace"
    ELSE IF FirstForceAt(st.forces, mx, my, 1) # 0 THEN "pressForce"
    ELSE IF WithinDist(mx * 100, my * 100, st.pivot.x, st.pivot.y, 1000)
    THEN "pressPivot"
    ELSE "pressMiss"

\* the place in `issued` of the force that carries id now: the last time
\* the id was assigned, 0 when it never was
LastIssue(q, id) ==
    LET hits == {i \in 1..Len(q) : q[i] = id}
    IN IF hits = {} THEN 0 ELSE CHOOSE i \in hits : \A j \in hits : j <= i

\* `grabbed` after a press at (mx, my) that reaches the drag branches
Grab(st, mx, my) ==
    LET i == FirstForceAt(st.forces, mx, my, 1)
    IN IF i # 0 THEN LastIssue(issued, st.forces[i].id)
       ELSE IF WithinDist(mx * 100, my * 100, st.pivot.x, st.pivot.y, 1000)
       THEN 0
       ELSE grabbed

mousePressed(mx, my) ==
    /\ nEvents' = nEvents + 1
    /\ mouseX' = mx
    /\ mouseY' = my
    /\ ev' = Event(PressPath(state, mx, my))
    /\ IF ~isMouseInCanvas(mx, my)
       THEN UNCHANGED <<state, dragging, issued, grabbed>>
       ELSE IF state.placingForce
       THEN /\ state' = PlaceForce(state, mx, my)
            /\ issued' = Append(issued, state.nextForceId)
            /\ UNCHANGED <<dragging, grabbed>>
       ELSE /\ dragging' = PickDrag(state, mx, my)
            /\ grabbed' = Grab(state, mx, my)
            /\ UNCHANGED <<state, issued>>
    /\ UNCHANGED subStep
    /\ UNCHANGED <<p1, p2, v1, v2, trail1, trail2, samples1, samples2>>

\* MoveForce with dragging.idx taken for a place in the collection
MoveForceByPlace(fs, idx, mx, my) ==
    IF idx \in 1..Len(fs)
    THEN [fs EXCEPT ![idx].x = mx * 100, ![idx].y = my * 100]
    ELSE fs

\* forces with the x, y of the one whose id is idx set to the pointer
MoveForce(fs, idx, mx, my) ==
    LET hits == {i \in 1..Len(fs) : fs[i].id = idx}
    IN IF hits = {} THEN fs
       ELSE LET i == CHOOSE j \in hits : \A l \in hits : j <= l
            IN [fs EXCEPT ![i].x = mx * 100, ![i].y = my * 100]

\* DragPivot with the bob velocities left as they were
DragPivotKeepsVelocity(mx, my) ==
    [pivot |-> vec(mx * 100, my * 100), p1 |-> p1, p2 |-> p2,
     v1 |-> v1, v2 |-> v2]

\* DragPivot with the bobs posed again from the new pivot, as resetSim does
DragPivotReposes(mx, my) ==
    LET pose == applyAngles([state EXCEPT !.pivot = vec(mx * 100, my * 100)],
                            -30, -30)
    IN [pivot |-> vec(mx * 100, my * 100), p1 |-> pose.p1, p2 |-> pose.p2,
        v1 |-> ZeroVec, v2 |-> ZeroVec]

\* the pivot, bob positions and bob velocities after a move handled in
\* dragging-pivot mode
DragPivot(mx, my) ==
    [pivot |-> vec(mx * 100, my * 100), p1 |-> p1, p2 |-> p2,
     v1 |-> ZeroVec, v2 |-> ZeroVec]

mouseDragged(mx, my) ==
    /\ nEvents' = nEvents + 1
    /\ mouseX' = mx
    /\ mouseY' = my
    /\ ev' = Event(IF ~isMouseInCanvas(mx, my) THEN "dragOutside"
                   ELSE IF dragging.type = "pivot" THEN "dragPivot"
                   ELSE IF dragging.type = "force" THEN "dragForce"
                   ELSE "dragIdle")
    /\ IF ~isMouseInCanvas(mx, my)
       THEN UNCHANGED <<state, p1, p2, v1, v2>>
       ELSE IF dragging.type = "pivot"
       THEN /\ state' = [state EXCEPT !.pivot = DragPivot(mx, my).pivot]
            /\ p1' = DragPivot(mx, my).p1
            /\ p2' = DragPivot(mx, my).p2
            /\ v1' = DragPivot(mx, my).v1
            /\ v2' = DragPivot(mx, my).v2
       ELSE IF dragging.type = "force"
       THEN /\ state' = [state EXCEPT
                           !.forces = MoveForce(state.forces, dragging.idx, mx, my)]
            /\ UNCHANGED <<p1, p2, v1, v2>>
       ELSE UNCHANGED <<state, p1, p2, v1, v2>>
    /\ UNCHANGED <<subStep, grabbed>>
    /\ UNCHANGED <<trail1, trail2, dragging, issued, samples1, samples2>>

\* ReleasedDrag guarded by isMouseInCanvas like the other two handlers
ReleasedDragInsideOnly(mx, my) ==
    IF isMouseInCanvas(mx, my) THEN NoDrag ELSE dragging

\* the drag target after a release at (mx, my)
ReleasedDrag(mx, my) == NoDrag

mouseReleased(mx, my) ==
    /\ nEvents' = nEvents + 1
    /\ mouseX' = mx
    /\ mouseY' = my
    /\ ev' = Event(IF dragging.type = "null" THEN "releaseIdle"
                   ELSE "releaseDrag")
    /\ dragging' = ReleasedDrag(mx, my)
    /\ grabbed' = 0
    /\ UNCHANGED subStep
    /\ UNCHANGED <<state, p1, p2, v1, v2, trail1, trail2, issued,
                   samples1, samples2>>

\* ---------------------------------------------------------------------
\* UI wiring
\* ---------------------------------------------------------------------
\* a handler that only assigns fields of `state`
UIEvent(op, newState) ==
    /\ nEvents' = nEvents + 1
    /\ ev' = Event(op)
    /\ state' = newState
    /\ UNCHANGED <<subStep, grabbed>>
    /\ UNCHANGED <<p1, p2, v1, v2, trail1, trail2, dragging, mouseX, mouseY,
                   issued, samples1, samples2>>

pausePlayBtn == UIEvent("pausePlayBtn", [state EXCEPT !.paused = ~state.paused])

showTrailsChange ==
    \E b \in BOOLEAN : UIEvent("showTrails", [state EXCEPT !.showTrails = b])

addForceBtn ==
    /\ state.nextForceId <= MaxForceId
    /\ UIEvent("addForceBtn", [state EXCEPT !.placingForce = TRUE])

\* resetSim, from the reset button
resetBtn ==
    /\ nEvents' = nEvents + 1
    /\ ev' = Event("resetBtn")
    /\ state' = ResetState(state)
    /\ LET pose == applyAngles(ResetState(state), -30, -30)
       IN /\ p1' = pose.p1
          /\ p2' = pose.p2
          /\ v1' = pose.v1
          /\ v2' = pose.v2
    /\ trail1' = <<>>
    /\ trail2' = <<>>
    /\ samples1' = <<>>
    /\ samples2' = <<>>
    /\ UNCHANGED <<subStep, grabbed>>
    /\ UNCHANGED <<dragging, mouseX, mouseY, issued>>

applyAnglesBtn ==
    \E th \in ThetaInputs :
            /\ nEvents' = nEvents + 1
        /\ ev' = Event("applyAnglesBtn")
        /\ LET pose == applyAngles(state, th[1], th[2])
           IN /\ p1' = pose.p1
              /\ p2' = pose.p2
              /\ v1' = pose.v1
              /\ v2' = pose.v2
        /\ UNCHANGED <<subStep, grabbed>>
        /\ UNCHANGED <<state, trail1, trail2, dragging, mouseX, mouseY,
                       issued, samples1, samples2>>

\* RemoveById with the test of the filter inverted
RemoveByIdKeepsMatch(fs, id) == SelectSeq(fs, LAMBDA ff : ff.id = id)

\* state.forces.filter(ff => ff.id !== id)
RemoveById(fs, id) == SelectSeq(fs, LAMBDA ff : ff.id # id)

removeForce ==
    \E id \in ForceIds :
        UIEvent("removeForce",
                [state EXCEPT !.forces = RemoveById(state.forces, id)])

\* the editors of a listed force
EditForce(op, i, field, value) ==
    UIEvent(op, [state EXCEPT !.forces[i][field] = value])

editAngle ==
    \E i \in 1..Len(state.forces), a \in AngleInputs :
        EditForce("editAngle", i, "angleDeg", a)

editMagnitude ==
    \E i \in 1..Len(state.forces), m \in MagnitudeInputs :
        EditForce("editMagnitude", i, "magnitude", m)

editRadius ==
    \E i \in 1..Len(state.forces), r \in RadiusInputs :
        EditForce("editRadius", i, "radius_m", Max(1, r))

editX ==
    \E i \in 1..Len(state.forces), x \in MeterInputs :
        EditForce("editX", i, "x", x * state.pxPerM)

editY ==
    \E i \in 1..Len(state.forces), y \in MeterInputs :
        EditForce("editY", i, "y", y * state.pxPerM)

\* the parameter panel: environment
gravityInput ==
    \E v \in GravityInputs : UIEvent("gravity", [state EXCEPT !.g = v])

airInput ==
    \E v \in AirInputs : UIEvent("air", [state EXCEPT !.air = v])

collideBobsChange ==
    \E b \in BOOLEAN : UIEvent("collideBobs", [state EXCEPT !.collideBobs = b])

\* geometry: Math.max(0.1, value) metres
L1Change ==
    \E v \in LengthInputs : UIEvent("L1", [state EXCEPT !.L1_m = Max(10, v)])

L2Set(v) == UIEvent("L2", [state EXCEPT !.L2_m = Max(10, v)])

L2Change == \E v \in LengthInputs : L2Set(v)

\* elasticity: the percentage goes to pctToStiffness as typed
elast1Input ==
    \E pct \in PercentInputs :
        UIEvent("elast1", [state EXCEPT !.k1 = pctToStiffness(pct)])

elast2Input ==
    \E pct \in PercentInputs :
        UIEvent("elast2", [state EXCEPT !.k2 = pctToStiffness(pct)])

\* masses: Math.max(0.1, value) kg for the bobs, Math.max(0, value) for
\* the strings
m1Change ==
    \E v \in MassInputs : UIEvent("m1", [state EXCEPT !.m1 = Max(1, v)])

m2Change ==
    \E v \in MassInputs : UIEvent("m2", [state EXCEPT !.m2 = Max(1, v)])

ms1Change ==
    \E v \in StringMassInputs : UIEvent("ms1", [state EXCEPT !.ms1 = Max(0, v)])

ms2Change ==
    \E v \in StringMassInputs : UIEvent("ms2", [state EXCEPT !.ms2 = Max(0, v)])

\* advanced: Math.max(0.001, value) s, Math.max(1, value) sub-steps,
\* Math.max(10, value) px per metre
dtSet(v) == UIEvent("dt", [state EXCEPT !.dt = Max(1, v)])

dtChange == \E v \in DtInputs : dtSet(v)

substepsSet(v) == UIEvent("substeps", [state EXCEPT !.substeps = Max(1, v)])

substepsChange == \E v \in SubstepInputs : substepsSet(v)

pxPerMChange ==
    \E v \in PxPerMInputs :
        UIEvent("pxPerM", [state EXCEPT !.pxPerM = Max(10, v)])

\* ---------------------------------------------------------------------
\* Specification
\* ---------------------------------------------------------------------
\* the host's pointer events, each with the pointer position it reports
PointerPress == \E pt \in MousePoints : mousePressed(pt[1], pt[2])
PointerMove == \E pt \in MousePoints : mouseDragged(pt[1], pt[2])
PointerRelease == \E pt \in MousePoints : mouseReleased(pt[1], pt[2])

\* the bound on the length of a run
Budget == nEvents < MaxEvents

Next ==
    \/ Budget /\ draw
    \/ Budget /\ PointerPress
    \/ Budget /\ PointerMove
    \/ Budget /\ PointerRelease
    \/ Budget /\ pausePlayBtn
    \/ Budget /\ showTrailsChange
    \/ Budget /\ addForceBtn
    \/ Budget /\ resetBtn
    \/ Budget /\ applyAnglesBtn
    \/ Budget /\ removeForce
    \/ Budget /\ editAngle
    \/ Budget /\ editMagnitude
    \/ Budget /\ editRadius
    \/ Budget /\ editX
    \/ Budget /\ editY

Spec == Init /\ [][Next]_vars

\* A long run: frames up to MaxTrailFrames, with the pause, trail and reset
\* controls used only during its last three steps
LongRun == nEvents < MaxTrailFrames
LateInRun == nEvents >= MaxTrailFrames - 3 /\ nEvents < MaxTrailFrames

NextTrail ==
    \/ LongRun /\ draw
    \/ LateInRun /\ pausePlayBtn
    \/ LateInRun /\ showTrailsChange
    \/ LateInRun /\ resetBtn

SpecTrail == Init /\ [][NextTrail]_vars

\* A short run with the parameter panel in use: every handler of the page
PanelBudget == nEvents < MaxPanelEvents

NextPanel ==
    \/ PanelBudget /\ draw
    \/ PanelBudget /\ PointerPress
    \/ PanelBudget /\ PointerMove
    \/ PanelBudget /\ PointerRelease
    \/ PanelBudget /\ pausePlayBtn
    \/ PanelBudget /\ showTrailsChange
    \/ PanelBudget /\ addForceBtn
    \/ PanelBudget /\ resetBtn
    \/ PanelBudget /\ applyAnglesBtn
    \/ PanelBudget /\ removeForce
    \/ PanelBudget /\ editAngle
    \/ PanelBudget /\ editMagnitude
    \/ PanelBudget /\ editRadius
    \/ PanelBudget /\ editX
    \/ PanelBudget /\ editY
    \/ PanelBudget /\ gravityInput
    \/ PanelBudget /\ airInput
    \/ PanelBudget /\ collideBobsChange
    \/ PanelBudget /\ L1Change
    \/ PanelBudget /\ L2Change
    \/ PanelBudget /\ elast1Input
    \/ PanelBudget /\ elast2Input
    \/ PanelBudget /\ m1Change
    \/ PanelBudget /\ m2Change
    \/ PanelBudget /\ ms1Change
    \/ PanelBudget /\ ms2Change
    \/ PanelBudget /\ dtChange
    \/ PanelBudget /\ substepsChange
    \/ PanelBudget /\ pxPerMChange

SpecPanel == Init /\ [][NextPanel]_vars

\* The force collections addExternalForces is given: up to two forces, each
\* where a press or an x, y edit can put it, with the angle, magnitude and
\* radius an edit can give it, and the bobs in a pose of applyAngles
ForceSetups ==
    {[x |-> pt[1] * 100, y |-> pt[2] * 100, angleDeg |-> a, magnitude |-> m,
      radius_m |-> Max(1, r)] :
        pt \in MousePoints, a \in {0} \cup AngleInputs,
        m \in {0} \cup MagnitudeInputs, r \in RadiusInputs}

WithId(f, id) ==
    [id |-> id, x |-> f.x, y |-> f.y, angleDeg |-> f.angleDeg,
     magnitude |-> f.magnitude, radius_m |-> f.radius_m]

ForceCollections ==
    {<<>>} \cup {<<WithId(f, 1)>> : f \in ForceSetups}
           \cup {<<WithId(f, 1), WithId(g, 2)>> : f, g \in ForceSetups}

InitForces ==
    \E fs \in ForceCollections, th \in ThetaInputs :
        /\ state = [ResetState(InitialState) EXCEPT
                       !.forces = fs, !.nextForceId = Len(fs) + 1]
        /\ LET pose == applyAngles(ResetState(InitialState), th[1], th[2])
           IN /\ p1 = pose.p1
              /\ p2 = pose.p2
              /\ v1 = pose.v1
              /\ v2 = pose.v2
        /\ trail1 = <<>>
        /\ trail2 = <<>>
        /\ dragging = NoDrag
        /\ mouseX = 0
        /\ mouseY = 0
        /\ nEvents = 0
        /\ ev = [op |-> "setup", moving |-> FALSE]
        /\ issued = [i \in 1..Len(fs) |-> i]
        /\ samples1 = <<>>
        /\ samples2 = <<>>
        /\ subStep = 0
        /\ grabbed = 0

NextForces ==
    \/ nEvents < MaxForceEvents /\ draw
    \/ nEvents < MaxForceEvents /\ PointerPress
    \/ nEvents < MaxForceEvents /\ removeForce

SpecForces == InitForces /\ [][NextForces]_vars

\* A run at the controls that bring the bobs together: string 2 shortened
\* to 1.5 m, one sub-step of 10 ms per frame, the collision switch and the
\* frame
CollideLengths == {v \in LengthInputs : v >= 100}
CollideSteps == {v \in DtInputs : v >= 10}

NextCollide ==
    \/ nEvents < MaxCollideEvents /\ draw
    \/ nEvents < MaxCollideEvents /\ collideBobsChange
    \/ nEvents < MaxCollideEvents /\ \E v \in CollideLengths : L2Set(v)
    \/ nEvents < MaxCollideEvents /\ \E v \in CollideSteps : dtSet(v)
    \/ nEvents < MaxCollideEvents /\ substepsChange

SpecCollide == Init /\ [][NextCollide]_vars

\* The frame taken one sub-step at a time, with the pointer and the
\* controls that move the pivot, change a parameter or change the forces
NextSteps ==
    \/ nEvents < MaxStepEvents /\ drawSubStep
    \/ nEvents < MaxStepEvents /\ HostIdle /\ state.paused /\ draw
    \/ nEvents < MaxStepEvents /\ HostIdle /\ PointerPress
    \/ nEvents < MaxStepEvents /\ HostIdle /\ PointerMove
    \/ nEvents < MaxStepEvents /\ HostIdle /\ PointerRelease
    \/ nEvents < MaxStepEvents /\ HostIdle /\ pausePlayBtn
    \/ nEvents < MaxStepEvents /\ HostIdle /\ addForceBtn
    \/ nEvents < MaxStepEvents /\ HostIdle /\ removeForce
    \/ nEvents < MaxStepEvents /\ HostIdle /\ editMagnitude
    \/ nEvents < MaxStepEvents /\ HostIdle /\ gravityInput
    \/ nEvents < MaxStepEvents /\ HostIdle /\ dtChange

SpecSteps == Init /\ [][NextSteps]_vars

\* A run of the pointer with the requests that empty, refill and thin the
\* force collection: long enough for a force to be placed, grabbed, lost to
\* a reset and followed by another placement before the pointer moves
NextDrag ==
    \/ nEvents < MaxDragEvents /\ PointerPress
    \/ nEvents < MaxDragEvents /\ PointerMove
    \/ nEvents < MaxDragEvents /\ PointerRelease
    \/ nEvents < MaxDragEvents /\ addForceBtn
    \/ nEvents < MaxDragEvents /\ resetBtn
    \/ nEvents < MaxDragEvents /\ removeForce
    \/ nEvents < MaxDragEvents /\ draw

SpecDrag == Init /\ [][NextDrag]_vars

\* ---------------------------------------------------------------------
\* Properties
\* ---------------------------------------------------------------------
PressOps == {"pressOutside", "pressPlace", "pressForce", "pressPivot", "pressMiss"}
MoveOps == {"dragOutside", "dragPivot", "dragForce", "dragIdle"}
ReleaseOps == {"releaseIdle", "releaseDrag"}

\* the pointer position (px) lies outside the simulation surface
OffSurface(mx, my) == mx < 0 \/ mx >= simW \/ my < 0 \/ my >= simH

\* the pointer position as a point of the surface (1/100 px)
MousePos == vec(mouseX * 100, mouseY * 100)

\* what the integrator and the controller share, besides the drag target
Scene == <<state, p1, p2, v1, v2, trail1, trail2>>

\* C1: in every reachable state no two entries of the force collection
\* have the same id.
UniqueForceIds ==
    \A i, j \in 1..Len(state.forces) :
        i # j => state.forces[i].id # state.forces[j].id

\* two forces exist side by side
TwoForcesCoexist == Len(state.forces) >= 2

\* C2: force ids are assigned in strictly increasing order, and an id once
\* assigned is never assigned to a force created later, whatever
\* placements, removals and resets happen in between.
IdsNeverReused ==
    \A i, j \in 1..Len(issued) : i < j => issued[i] < issued[j]

\* C3: the placing-force flag is never set while a pivot drag or a force
\* drag is in progress, so the controller is in exactly one mode.
ExactlyOneMode == ~(state.placingForce /\ dragging.type # "null")

\* C4 as claimed: a pointer press, move or release outside the simulation
\* surface leaves the placing flag, the drag target, the pivot, the forces
\* and the bob velocities as they were.
OutsidePointerIgnored ==
    [][(ev'.op \in PressOps \cup MoveOps \cup ReleaseOps
            /\ OffSurface(mouseX', mouseY'))
        => UNCHANGED <<state, dragging, v1, v2>>]_vars

\* C4 as the code has it: a pointer press or move outside the simulation
\* surface changes nothing; a pointer release outside it ends the drag in
\* progress and changes nothing else.
OutsidePressMoveIgnored ==
    [][/\ (ev'.op \in PressOps \cup MoveOps /\ OffSurface(mouseX', mouseY'))
            => UNCHANGED <<Scene, dragging>>
       /\ (ev'.op \in ReleaseOps /\ OffSurface(mouseX', mouseY'))
            => (dragging' = NoDrag /\ UNCHANGED Scene)]_vars

\* a drag was ended by a release outside the surface
DragReleasedOutside ==
    /\ ev.op = "releaseDrag"
    /\ OffSurface(mouseX, mouseY)
    /\ dragging = NoDrag

\* C5: in placing-force mode a press inside the surface appends exactly one
\* force at the press location with angle 0, magnitude 0, radius 0.8 m and
\* the next id, leaves placing mode and starts no drag; a press outside the
\* surface leaves placing mode pending and creates nothing.
PlacingPressPlaces ==
    [][(ev'.op \in PressOps /\ state.placingForce)
        => IF OffSurface(mouseX', mouseY')
           THEN UNCHANGED <<state, dragging>>
           ELSE /\ state'.forces = Append(state.forces,
                       [id |-> state.nextForceId,
                        x |-> mouseX' * 100, y |-> mouseY' * 100,
                        angleDeg |-> 0, magnitude |-> 0, radius_m |-> 8])
                /\ state'.nextForceId = state.nextForceId + 1
                /\ ~state'.placingForce
                /\ state'.pivot = state.pivot
                /\ dragging' = dragging]_vars

\* a force was placed by a press within pick radius of the pivot and of an
\* existing force, and no drag started
PlacedOnPivot ==
    /\ ev.op = "pressPlace"
    /\ Len(state.forces) = 2
    /\ WithinDist(MousePos.x, MousePos.y, state.pivot.x, state.pivot.y, 1000)
    /\ WithinDist(MousePos.x, MousePos.y,
                  state.forces[1].x, state.forces[1].y, 1200)
    /\ state.forces[2].x = MousePos.x
    /\ state.forces[2].y = MousePos.y
    /\ dragging = NoDrag

\* C6: every pointer move handled in dragging-pivot mode, the pointer being
\* inside the surface, sets the pivot to the pointer location and leaves
\* both bob velocities exactly zero, whatever they were before.
PivotDragZeroesVelocity ==
    [][(ev'.op \in MoveOps /\ dragging.type = "pivot"
            /\ ~OffSurface(mouseX', mouseY'))
        => /\ state'.pivot = vec(mouseX' * 100, mouseY' * 100)
           /\ v1' = ZeroVec
           /\ v2' = ZeroVec]_vars

\* a pivot drag found a bob moving, moved the pivot and stopped both bobs
MovingBobsStopped ==
    /\ ev.op = "dragPivot"
    /\ ev.moving
    /\ state.pivot = MousePos
    /\ state.pivot # InitialState.pivot
    /\ v1 = ZeroVec
    /\ v2 = ZeroVec

\* C7 as claimed: a press within 10 px of the pivot, when the controller is
\* not placing a force, enters dragging-pivot mode and itself sets both bob
\* velocities to zero.
PivotPressZeroesVelocity ==
    [][(/\ ev'.op \in PressOps
        /\ ~OffSurface(mouseX', mouseY')
        /\ ~state.placingForce
        /\ WithinDist(mouseX' * 100, mouseY' * 100,
                      state.pivot.x, state.pivot.y, 1000))
        => /\ dragging'.type = "pivot"
           /\ v1' = ZeroVec
           /\ v2' = ZeroVec]_vars

\* C7 as the code has it: a press inside the surface within 10 px of the
\* pivot, when the controller is not placing and no force lies within 12 px
\* of the press, enters dragging-pivot mode and changes nothing else: the
\* bob velocities stay as they were until a pointer move drags the pivot.
PivotPressOnlyStartsDrag ==
    [][(/\ ev'.op \in PressOps
        /\ ~OffSurface(mouseX', mouseY')
        /\ ~state.placingForce
        /\ WithinDist(mouseX' * 100, mouseY' * 100,
                      state.pivot.x, state.pivot.y, 1000)
        /\ \A i \in 1..Len(state.forces) :
               ~WithinDist(mouseX' * 100, mouseY' * 100,
                           state.forces[i].x, state.forces[i].y, 1200))
        => /\ dragging' = [type |-> "pivot", idx |-> -1]
           /\ UNCHANGED Scene]_vars

\* a press exactly 10 px from the pivot started a pivot drag while the bobs
\* were moving, and they still move
PivotPressedWhileMoving ==
    /\ ev.op = "pressPivot"
    /\ ev.moving
    /\ MousePos # state.pivot
    /\ dragging.type = "pivot"
    /\ v1 # ZeroVec
    /\ v2 # ZeroVec

\* the bobs hang at their natural lengths: bob1 at L1 from the pivot, bob2
\* at L2 from bob1
AtNaturalLengths(st, q1, q2) ==
    /\ Mag(VSub(q1, st.pivot)) = st.L1_m * st.pxPerM
    /\ Mag(VSub(q2, q1)) = st.L2_m * st.pxPerM

\* C8 as claimed: after a pivot drag, as after a reset, bob1 sits at L1
\* from the pivot's new location and bob2 at L2 from bob1, with both
\* velocities zero.
PivotDragReposes ==
    ev.op \in {"dragPivot", "resetBtn"}
        => /\ AtNaturalLengths(state, p1, p2)
           /\ v1 = ZeroVec
           /\ v2 = ZeroVec

\* C8 as the code has it: a reset poses the bobs at angles (-30, -30) from
\* the pivot, bob1 at L1 from it and bob2 at L2 from bob1, with both
\* velocities zero; a pivot drag zeroes both velocities and moves the pivot
\* but leaves both bobs where they were.
PivotDragKeepsBobs ==
    [][/\ ev'.op = "resetBtn"
            => /\ AtNaturalLengths(state', p1', p2')
               /\ <<p1', p2'>> = <<applyAngles(state', -30, -30).p1,
                                   applyAngles(state', -30, -30).p2>>
               /\ v1' = ZeroVec
               /\ v2' = ZeroVec
       /\ (ev'.op \in MoveOps /\ dragging.type = "pivot"
               /\ ~OffSurface(mouseX', mouseY'))
            => /\ p1' = p1
               /\ p2' = p2
               /\ v1' = ZeroVec
               /\ v2' = ZeroVec]_vars

\* a pivot drag left string 1 off its natural length
PivotDraggedAwayFromBob ==
    /\ ev.op = "dragPivot"
    /\ state.pivot = MousePos
    /\ ~AtNaturalLengths(state, p1, p2)
    /\ v1 = ZeroVec
    /\ v2 = ZeroVec

\* C9: a pointer release always ends the drag in progress, wherever the
\* pointer is; from then on no pointer move modifies the pivot, a force or
\* the bob velocities, and only a press starts a drag again.
ReleaseEndsDrag ==
    [][/\ ev'.op \in ReleaseOps => dragging' = NoDrag
       /\ (ev'.op \in MoveOps /\ dragging = NoDrag)
            => UNCHANGED <<state, dragging, v1, v2>>
       /\ (dragging = NoDrag /\ dragging' # NoDrag)
            => ev'.op \in PressOps]_vars

\* a pivot drag moved the pivot and was then ended by a release
PivotDragReleased ==
    /\ ev.op = "releaseDrag"
    /\ dragging = NoDrag
    /\ state.pivot # InitialState.pivot

\* the last k entries of a sequence
LastN(q, k) == SubSeq(q, Len(q) - k + 1, Len(q))

\* each trail buffer holds, in order, the most recent min(n, 800) samples
\* of its bob since the last reset
TrailHoldsRecentSamples ==
    /\ Len(samples1) = Len(samples2)
    /\ trail1 = LastN(samples1, Min(Len(samples1), MAX_TRAIL_POINTS))
    /\ trail2 = LastN(samples2, Min(Len(samples2), MAX_TRAIL_POINTS))
    /\ Len(trail1) <= MAX_TRAIL_POINTS
    /\ Len(trail2) <= MAX_TRAIL_POINTS

\* C10 as claimed: each trail buffer holds the most recent min(n, 800)
\* samples, never more than 800, and after 900 or more sampled frames it
\* holds exactly 800 with the 101st frame's position as its oldest entry.
TrailOldestIs101st ==
    /\ TrailHoldsRecentSamples
    /\ Len(samples1) >= 900
        => /\ Len(trail1) = MAX_TRAIL_POINTS
           /\ Len(trail2) = MAX_TRAIL_POINTS
           /\ trail1[1] = samples1[101]
           /\ trail2[1] = samples2[101]

\* C10 as the code has it: each trail buffer holds the most recent
\* min(n, 800) samples, never more than 800; after exactly 900 sampled
\* frames it holds exactly 800 with the 101st frame's position as its
\* oldest entry, and after n >= 800 frames its oldest entry is the position
\* of frame n - 799.
TrailIsFifo ==
    /\ TrailHoldsRecentSamples
    /\ Len(samples1) = 900
        => /\ Len(trail1) = MAX_TRAIL_POINTS
           /\ Len(trail2) = MAX_TRAIL_POINTS
           /\ trail1[1] = samples1[101]
           /\ trail2[1] = samples2[101]
    /\ Len(samples1) >= MAX_TRAIL_POINTS
        => /\ trail1[1] = samples1[Len(samples1) - 799]
           /\ trail2[1] = samples2[Len(samples2) - 799]

\* 900 frames were sampled and the first 100 samples evicted
HundredSamplesEvicted ==
    /\ Len(samples1) = 900
    /\ Len(trail1) = MAX_TRAIL_POINTS
    /\ trail1[1] = samples1[101]
    /\ trail1[1] # samples1[1]
    /\ trail1[MAX_TRAIL_POINTS] = p1

\* C11: a frame run while trails are disabled leaves both trail buffers as
\* they were, and so does switching trails off or on, so the buffers are at
\* re-enabling what they were at disabling; a non-empty trail buffer becomes
\* empty only by reset-to-defaults.
TrailsKeptWhileDisabled ==
    [][/\ (~state.showTrails /\ ev'.op \in {"draw", "drawPaused"})
            => UNCHANGED <<trail1, trail2>>
       /\ ev'.op = "showTrails" => UNCHANGED <<trail1, trail2>>
       /\ ((trail1 # <<>> /\ trail1' = <<>>) \/ (trail2 # <<>> /\ trail2' = <<>>))
            => ev'.op = "resetBtn"]_vars

\* trails were re-enabled after a frame that moved the bobs without
\* sampling them: the buffers still end with the sample taken before
TrailsReenabledAfterFrame ==
    /\ ev.op = "showTrails"
    /\ ev.moving
    /\ state.showTrails
    /\ trail1 # <<>>
    /\ trail2 # <<>>
    /\ trail1 = samples1
    /\ p1 # trail1[Len(trail1)]
    /\ p2 # trail2[Len(trail2)]

\* the collection fs2 is fs with the entry of one id taken out, the others
\* in their order, or fs itself when no entry has that id
IsRemovalOf(fs2, fs, id) ==
    LET hits == {i \in 1..Len(fs) : fs[i].id = id}
    IN IF hits = {} THEN fs2 = fs
       ELSE \E k \in hits :
                /\ hits = {k}
                /\ fs2 = SubSeq(fs, 1, k - 1) \o SubSeq(fs, k + 1, Len(fs))

\* C12: a frame run while the paused flag is set leaves the bob positions,
\* the bob velocities and both trail buffers as they were, while a placing
\* press, a pivot drag, a force removal and a parameter edit handled during
\* the pause have their effect.
PausedFrameIdle ==
    [][/\ (state.paused /\ ev'.op \in {"draw", "drawPaused"})
            => UNCHANGED <<p1, p2, v1, v2, trail1, trail2>>
       /\ (state.paused /\ ev'.op = "pressPlace")
            => /\ Len(state'.forces) = Len(state.forces) + 1
               /\ state'.forces[Len(state'.forces)].x = mouseX' * 100
               /\ state'.forces[Len(state'.forces)].y = mouseY' * 100
       /\ (state.paused /\ ev'.op = "dragPivot")
            => state'.pivot = vec(mouseX' * 100, mouseY' * 100)
       /\ (state.paused /\ ev'.op = "removeForce")
            => \E id \in ForceIds : IsRemovalOf(state'.forces, state.forces, id)
       /\ (state.paused /\ ev'.op = "gravity") => state'.g \in GravityInputs
       /\ (state.paused /\ ev'.op = "air") => state'.air \in AirInputs]_vars

\* a frame ran during a pause that caught the bobs moving, and they still
\* have their velocities and their last trail sample
PausedFrameWhileMoving ==
    /\ ev.op = "drawPaused"
    /\ ev.moving
    /\ state.paused
    /\ v1 # ZeroVec
    /\ v2 # ZeroVec
    /\ trail1 # <<>>
    /\ p1 = trail1[Len(trail1)]

\* C13: whatever values the parameter handlers were given, the integrator
\* finds L1, L2 >= 0.1 m, m1, m2 >= 0.1 kg, ms1, ms2 >= 0, dt >= 0.001 s,
\* substeps >= 1, pxPerM >= 10 and both stiffnesses within [50, 20000].
ConfigAlwaysValid ==
    /\ state.L1_m >= 10
    /\ state.L2_m >= 10
    /\ state.m1 >= 1
    /\ state.m2 >= 1
    /\ state.ms1 >= 0
    /\ state.ms2 >= 0
    /\ state.dt >= 1
    /\ state.substeps >= 1
    /\ state.pxPerM >= 10
    /\ state.k1 >= pctToStiffness(0)
    /\ state.k1 <= pctToStiffness(100)
    /\ state.k2 >= pctToStiffness(0)
    /\ state.k2 <= pctToStiffness(100)

\* C14: reset-to-defaults, in whatever state it is called, leaves g = 9.81,
\* air = 0, L1 = L2 = 2.0 m, k1 = k2 = 20000, m1 = m2 = 1, ms1 = ms2 = 0,
\* dt = 0.016 s, substeps = 8, no force, empty trail buffers, placing off,
\* both velocities zero and the bobs posed at angles (-30, -30) from the
\* pivot where it is: bob1 at (173.2, -100) px from the pivot and bob2 at
\* (100, -173.2) px from bob1.
ResetRestoresDefaults ==
    [][ev'.op = "resetBtn"
        => /\ state'.g = 981
           /\ state'.air = 0
           /\ state'.L1_m = 200
           /\ state'.L2_m = 200
           /\ state'.k1 = 20000
           /\ state'.k2 = 20000
           /\ state'.m1 = 10
           /\ state'.m2 = 10
           /\ state'.ms1 = 0
           /\ state'.ms2 = 0
           /\ state'.dt = 16
           /\ state'.substeps = 8
           /\ state'.forces = <<>>
           /\ ~state'.placingForce
           /\ trail1' = <<>>
           /\ trail2' = <<>>
           /\ v1' = ZeroVec
           /\ v2' = ZeroVec
           /\ state'.pivot = state.pivot
           /\ p1' = VAdd(state.pivot, vec(17320, -10000))
           /\ p2' = VAdd(p1', vec(10000, -17320))]_vars

\* a reset found the pivot dragged away from where setup() put it and
\* posed the bobs from there
ResetWithPivotMoved ==
    /\ ev.op = "resetBtn"
    /\ state.pivot # InitialState.pivot
    /\ p1 = VAdd(state.pivot, vec(17320, -10000))
    /\ state.dt = 16
    /\ state.forces = <<>>

\* C15: removing a force by id takes out exactly the entry with that id
\* when there is one and changes nothing when there is none; either way the
\* other forces, their order, the next-id counter and everything else stay
\* as they were.
RemoveDeletesOnlyThatId ==
    [][/\ \A id \in ForceIds :
              IsRemovalOf(RemoveById(state.forces, id), state.forces, id)
       /\ ev'.op = "removeForce"
            => /\ \E id \in ForceIds :
                      IsRemovalOf(state'.forces, state.forces, id)
               /\ state'.nextForceId = state.nextForceId
               /\ state' = [state EXCEPT !.forces = state'.forces]
               /\ UNCHANGED <<p1, p2, v1, v2, trail1, trail2, dragging>>]_vars

\* the first of two forces was removed: the second is still there, with
\* its id, and the counter still stands after it
FirstOfTwoRemoved ==
    /\ ev.op = "removeForce"
    /\ Len(state.forces) = 1
    /\ state.forces[1].id = 2
    /\ state.nextForceId = 3

\* the bobs as the next sub-step finds them
Bobs == [p1 |-> p1, p2 |-> p2, v1 |-> v1, v2 |-> v2]

\* C16: in the sub-step that starts from any reachable state the
\* coupling-spring force is one value F12 that enters bob1's net force as
\* +F12 and bob2's as -F12, so that the two contributions sum to zero.
CouplingForcesOpposite ==
    LET F12 == CouplingForce(state, Bobs)
        on1 == VSub(Force1(state, Bobs, F12), Force1(state, Bobs, ZeroVec))
        on2 == VSub(Force2(state, Bobs, F12), Force2(state, Bobs, ZeroVec))
    IN /\ on1 = F12
       /\ on2 = VNeg(F12)
       /\ VAdd(on1, on2) = ZeroVec

\* a frame has run and left string 2 stretched: the coupling-spring force
\* of the next sub-step is not zero
CouplingForceActs ==
    /\ ev.op = "draw"
    /\ CouplingForce(state, Bobs) # ZeroVec
    /\ Force1(state, Bobs, CouplingForce(state, Bobs))
           # Force1(state, Bobs, ZeroVec)

\* no force disc holds a bob
NoForceActs ==
    \A i \in 1..Len(state.forces) :
        LET f == state.forces[i]
            rpx == f.radius_m * state.pxPerM * 10
        IN /\ ~WithinDist(p1.x, p1.y, f.x, f.y, rpx)
           /\ ~WithinDist(p2.x, p2.y, f.x, f.y, rpx)

\* gravity 0, drag 0, collision off, no external force acting, both strings
\* at their natural length and both bobs still
AtRest ==
    /\ state.g = 0
    /\ state.air = 0
    /\ ~state.collideBobs
    /\ NoForceActs
    /\ AtNaturalLengths(state, p1, p2)
    /\ v1 = ZeroVec
    /\ v2 = ZeroVec

\* C17: with gravity 0, drag 0, collision disabled, no external force
\* acting, both strings at their natural length and both velocities zero, a
\* frame leaves both bob positions and both velocities as they were, and so
\* does any number of frames.
AtRestStaysAtRest ==
    [][(ev'.op = "draw" /\ AtRest) => UNCHANGED <<p1, p2, v1, v2>>]_vars

\* a frame ran its sub-steps on the system at rest without gravity and
\* sampled the bobs where they were posed
FrameRanAtRest ==
    /\ ev.op = "draw"
    /\ ~ev.moving
    /\ AtRest
    /\ trail1 # <<>>
    /\ trail1[Len(trail1)] = p1
    /\ trail2[Len(trail2)] = p2

\* the forces of the collection whose disc, boundary included, holds b
InRange(b) ==
    {i \in 1..Len(state.forces) :
        WithinDist(b.x, b.y, state.forces[i].x, state.forces[i].y,
                   state.forces[i].radius_m * state.pxPerM * 10)}

\* the sum of the vectors magnitude * pxPerM along angleDeg of the forces
\* whose index is in S, taken in no particular order
RECURSIVE SumOver(_)
SumOver(S) ==
    IF S = {} THEN ZeroVec
    ELSE LET i == CHOOSE j \in S : TRUE
             f == state.forces[i]
         IN VAdd(Scale(fromAngleDeg(f.angleDeg),
                       f.magnitude * state.pxPerM * 10),
                 SumOver(S \ {i}))

\* a sequence in reverse order
Reverse(q) == [i \in 1..Len(q) |-> q[Len(q) + 1 - i]]

\* C18: the external force on a bob is the sum of the forces at distance
\* <= radius_m * pxPerM from it, the boundary included; a force farther
\* away adds nothing, and the sum is the same with the collection in the
\* opposite order.
ExternalForceWithinRadius ==
    \A b \in {p1, p2} :
        /\ addExternalForces(state, b) = SumOver(InRange(b))
        /\ addExternalForces([state EXCEPT !.forces = Reverse(state.forces)], b)
               = addExternalForces(state, b)

\* a frame has run with two forces of different directions acting on bob1,
\* and none on bob2
TwoForcesOnOneBob ==
    /\ ev.op = "draw"
    /\ Cardinality(InRange(p1)) = 2
    /\ InRange(p2) = {}
    /\ state.forces[1].angleDeg # state.forces[2].angleDeg
    /\ state.forces[1].magnitude # 0
    /\ state.forces[2].magnitude # 0
    /\ addExternalForces(state, p1) # ZeroVec
    /\ addExternalForces(state, p2) = ZeroVec

\* the forces within 12 px of the pointer position (mx, my), in px
ForcesNear(fs, mx, my) ==
    {i \in 1..Len(fs) : WithinDist(mx * 100, my * 100, fs[i].x, fs[i].y, 1200)}

\* C19: a press inside the surface, when the controller is not placing,
\* that lies within 12 px of at least one force starts a drag of the first
\* such force in insertion order, also when the press is within 10 px of the
\* pivot; a pivot drag starts only when no force is within 12 px of it.
ForcePickedBeforePivot ==
    [][(/\ ev'.op \in PressOps
        /\ ~OffSurface(mouseX', mouseY')
        /\ ~state.placingForce)
        => LET near == ForcesNear(state.forces, mouseX', mouseY')
               onPivot == WithinDist(mouseX' * 100, mouseY' * 100,
                                     state.pivot.x, state.pivot.y, 1000)
           IN /\ near # {}
                   => \E i \in near :
                          /\ \A j \in near : i <= j
                          /\ dragging' = [type |-> "force",
                                          idx |-> state.forces[i].id]
              /\ (near = {} /\ onPivot)
                   => dragging' = [type |-> "pivot", idx |-> -1]
              /\ (near = {} /\ ~onPivot) => dragging' = dragging]_vars

\* a press on the pivot, with the first force of the collection far away
\* and the second within 12 px, started a drag of the second force
SecondForcePickedOnPivot ==
    /\ ev.op = "pressForce"
    /\ MousePos = state.pivot
    /\ Len(state.forces) = 2
    /\ ForcesNear(state.forces, mouseX, mouseY) = {2}
    /\ dragging = [type |-> "force", idx |-> state.forces[2].id]

\* every sub-step of a frame of n sub-steps of h from the bobs s that finds
\* the circles overlapping after integration ends with the centres R1 + R2
\* apart (to the 0.05 px the unit normal resolves), each bob moved by the
\* opposite of the other's move
RECURSIVE SeparatedAlong(_, _, _, _)
SeparatedAlong(st, s, h, n) ==
    IF n = 0 THEN TRUE
    ELSE LET t == Integrated(st, s, h)
             u == handleBobCollision(st, t)
             minDist == bobRadius(st.m1) + bobRadius(st.m2)
         IN /\ Mag(VSub(t.p2, t.p1)) < minDist
                 => /\ Abs(Mag(VSub(u.p2, u.p1)) - minDist) <= 5
                    /\ VSub(u.p1, t.p1) = VNeg(VSub(u.p2, t.p2))
            /\ SeparatedAlong(st, u, h, n - 1)

\* C20: with collision enabled, every sub-step that finds the two bob
\* circles overlapping after integration, coincident centres included,
\* moves the bobs by equal and opposite amounts and ends with the centre
\* distance R1 + R2.
CollisionSeparates ==
    state.collideBobs
        => SeparatedAlong(state, Bobs,
                          RndDiv(state.dt * 100, Max(1, state.substeps)),
                          Max(1, state.substeps))

\* C21: the sub-steps of a frame run to completion with no event handled
\* between them: from a state inside a frame the only step is the next
\* sub-step, which leaves the pivot, the parameters, the force collection,
\* the drag and the pointer as the frame found them, and whatever changes
\* the state object or the drag does so between two frames.
FrameRunsToCompletion ==
    [][/\ subStep # 0
           => /\ state' = state
              /\ dragging' = dragging
              /\ mouseX' = mouseX /\ mouseY' = mouseY
              /\ subStep' = (subStep + 1) % Max(1, state.substeps)
       /\ (state' # state \/ dragging' # dragging)
           => subStep = 0 /\ subStep' = 0]_vars

\* inside a frame that runs while a pivot drag is in progress, the pivot
\* already moved by the drag
MidFrameDuringDrag ==
    /\ subStep > 0
    /\ dragging.type = "pivot"
    /\ state.pivot = MousePos
    /\ state.pivot # InitialState.pivot

\* a pointer move that passes the surface guard while a force drag is in
\* progress
ForceDragMove ==
    /\ ev'.op \in MoveOps
    /\ ~OffSurface(mouseX', mouseY')
    /\ dragging.type = "force"

\* C22: a pointer move handled in dragging-force(id) mode, that is one
\* inside the surface, puts the force with that id at the pointer and
\* changes nothing else: no bob position or velocity, not the pivot, no
\* parameter, no other force and no other field of that force; with no
\* force of that id left it changes nothing.
ForceDragMovesOnlyThatForce ==
    [][ForceDragMove
        => /\ UNCHANGED <<p1, p2, v1, v2, trail1, trail2, dragging>>
           /\ [state' EXCEPT !.forces = state.forces] = state
           /\ Len(state'.forces) = Len(state.forces)
           /\ \A i \in 1..Len(state.forces) :
                  state'.forces[i] =
                      IF state.forces[i].id = dragging.idx
                      THEN [state.forces[i] EXCEPT !.x = mouseX' * 100,
                                                   !.y = mouseY' * 100]
                      ELSE state.forces[i]
           /\ (\A i \in 1..Len(state.forces) :
                   state.forces[i].id # dragging.idx) => state' = state]_vars

\* the first of two forces dragged to the pointer while the bobs move, the
\* second one somewhere else
FirstForceDraggedWhileMoving ==
    /\ ev.op = "dragForce"
    /\ ev.moving
    /\ Len(state.forces) = 2
    /\ state.forces[1].id = dragging.idx
    /\ vec(state.forces[1].x, state.forces[1].y) = MousePos
    /\ vec(state.forces[2].x, state.forces[2].y) # MousePos

\* C23: the force a pointer move repositions during a force drag is the
\* force that was under the pointer at the press that began the drag,
\* whatever resets, add-force requests, placements and removals came
\* between that press and the move.
DraggedForceIsGrabbedForce ==
    [][(/\ ForceDragMove
        /\ \E i \in 1..Len(state.forces) : state.forces[i].id = dragging.idx)
        => LastIssue(issued, dragging.idx) = grabbed]_vars

====
